---- MODULE Spec2Model ----
(***************************************************************************)
(* Task Manager API (FastAPI + SQLAlchemy + SQLite).                       *)
(*                                                                         *)
(* The model follows backend/app/routes.py statement by statement: every   *)
(* handler is a short sequence of storage calls on the request's own       *)
(* session (query, add / setattr / delete, commit, refresh), wrapped in a  *)
(* try block with `except HTTPException: raise` and a catch-all that rolls *)
(* back and answers 500.  backend/app/db.py supplies the session per       *)
(* request (get_db) and backend/app/main.py runs one uvicorn process.      *)
(*                                                                         *)
(* Python values are encoded as follows:                                   *)
(*   None            <<>>                                                  *)
(*   a value v       <<v>>                                                 *)
(*   a field of the request body that was not sent      Unset  (<<>>)      *)
(*   a field of the request body that was sent as x     <<x>>, x as above  *)
(* A row of the tasks table is a record [id, title, description,           *)
(* completed]; the table is a set of rows.                                 *)
(***************************************************************************)
EXTENDS Integers, FiniteSets, Sequences, TLC

\* ------------------------------------------------------------------ bounds
\* Largest id the table may hold: create is not offered once it is reached.
MaxId == 2
\* Number of requests that can be in flight at once.
NumReq == 2

Reqs == 1..NumReq
TaskIds == 1..MaxId
SessionIds == 1..NumReq

\* ------------------------------------------------------------- data shapes
None == <<>>
Some(v) == <<v>>
Unset == <<>>
Sent(x) == <<x>>

Titles == {"a", "b"}
Descriptions == {"d"}

\* What a client may send for each field of a JSON body.
TitleInputs == {Unset, Sent(None), Sent(Some(""))} \cup {Sent(Some(t)) : t \in Titles}
DescriptionInputs == {Unset, Sent(None)} \cup {Sent(Some(d)) : d \in Descriptions}
CompletedInputs == {Unset, Sent(None), Sent(Some(TRUE)), Sent(Some(FALSE))}

Bodies == [title : TitleInputs, description : DescriptionInputs, completed : CompletedInputs]
NoBody == [title |-> Unset, description |-> Unset, completed |-> Unset]

\* The Task entity: id assigned by storage, title required and non-empty,
\* description optional, completed a boolean.
Task == [id : TaskIds,
         title : {Some(t) : t \in Titles},
         description : {None} \cup {Some(d) : d \in Descriptions},
         completed : {Some(TRUE), Some(FALSE)}]

Ids(tbl) == {row.id : row \in tbl}

\* A schema that accepts every body.
TaskCreateAny(body) == TRUE

\* TaskCreate: title is required and non-empty, description is optional,
\* completed is an optional boolean.
TaskCreate_valid(body) ==
    /\ body.title # Unset
    /\ body.title # Sent(None)
    /\ body.title # Sent(Some(""))
    /\ body.completed # Sent(None)

\* TaskUpdate: every field is optional; a title that is sent as a string
\* must be non-empty.
TaskUpdate_valid(body) == body.title # Sent(Some(""))

\* The columns title and completed are NOT NULL, description is nullable.
NotNullOk(o) == o.title # None /\ o.completed # None

\* The default store (sqlite:///./tasks.db) with an integer primary key: the
\* new rowid is one more than the largest rowid in the table, so the id of
\* a deleted task can come back.
NewIdRowid(tbl) ==
    IF tbl = {} THEN 1
    ELSE (CHOOSE m \in Ids(tbl) : \A x \in Ids(tbl) : x <= m) + 1

\* A store that keeps a sequence (AUTOINCREMENT, or a database that
\* DATABASE_URL names): each create gets the id after the last one assigned,
\* and no id is handed out twice.
NewIdSequence(last) == last + 1

\* The id is assigned by storage on creation; which of the two the build
\* does is decided by the table definition and by DATABASE_URL.
NewId(tbl, last, auto) == IF auto THEN NewIdSequence(last) ELSE NewIdRowid(tbl)

\* ------------------------------------------------------------------- state
VARIABLES
    tasks,      \* the committed tasks table
    autoincrement, \* the build: TRUE if the storage keeps a sequence of ids
    lastId,     \* the last id of the sequence, if the storage keeps one (0: none)
    workers,    \* number of server processes sharing the table
    pc,         \* pc[r]: where request r is
    req,        \* req[r]: the request being handled, [op, task_id, body]
    sess,       \* sess[r]: the session get_db created for r (0: none)
    open,       \* the sessions created and not yet closed
    closes,     \* closes[r]: how many times r's session was closed
    obj,        \* obj[r]: the ORM object of the handler (<<>> or <<row>>)
    loaded,     \* loaded[r]: the attributes of obj[r] as loaded from the table
    uow,        \* uow[r]: the session's pending work: clean, new, dirty, deleted
    resp,       \* resp[r]: the response, [status, body]
    pre,        \* history: the table when the handler of r started
    preLast,    \* history: lastId when the handler of r started
    wrote,      \* history: the row of r's object right after r's commit (<<>>: none)
    faulted,    \* history: a storage call of r raised an injected error
    rolled,     \* history: r's handler called db.rollback()
    expect,     \* history: the rows the answered responses account for
    issued,     \* history: the ids returned by answered creates (201)
    gone        \* history: ids deleted with 204 and not returned by a create since

vars == <<tasks, autoincrement, lastId, preLast, workers, pc, req, sess, open, closes, obj, loaded, uow, resp,
          pre, wrote, faulted, rolled, expect, issued, gone>>

NoReq == [op |-> "none", task_id |-> 0, body |-> NoBody]
NoResp == [status |-> 0, body |-> <<>>]

\* The statements of a handler's body, from its first statement to its
\* return or raise.
InHandler == {"try", "stage", "commit", "refresh", "except", "returned"}

histVars == <<expect, issued, gone>>
sessVars == <<sess, open, closes>>

\* -------------------------------------------------------- storage helpers
\* db.query(TaskModel).filter(TaskModel.id == task_id).first()
First(tbl, task_id) ==
    IF task_id \in Ids(tbl)
    THEN <<CHOOSE row \in tbl : row.id = task_id>>
    ELSE <<>>

\* TaskModel(title=..., description=..., completed=...): a transient object,
\* its id not assigned yet (0); absent description is None, absent
\* completed is False.
NewTask(body) ==
    [id |-> 0,
     title |-> IF body.title = Unset THEN None ELSE body.title[1],
     description |-> IF body.description = Unset THEN None ELSE body.description[1],
     completed |-> IF body.completed = Unset THEN Some(FALSE) ELSE body.completed[1]]

\* A full replace: every field the request left out is assigned None.
SetAttrsReplace(o, body) ==
    [id |-> o.id,
     title |-> IF body.title # Unset THEN body.title[1] ELSE None,
     description |-> IF body.description # Unset THEN body.description[1] ELSE None,
     completed |-> IF body.completed # Unset THEN body.completed[1] ELSE None]

\* update_data = task_update.dict(exclude_unset=True);
\* for field, value in update_data.items(): setattr(db_task, field, value)
SetAttrs(o, body) ==
    [id |-> o.id,
     title |-> IF body.title # Unset THEN body.title[1] ELSE o.title,
     description |-> IF body.description # Unset THEN body.description[1] ELSE o.description,
     completed |-> IF body.completed # Unset THEN body.completed[1] ELSE o.completed]

\* The UPDATE the unit of work emits: only the attributes whose value
\* differs from the loaded one are written, onto the row as it is now.
Patched(cur, o, ld) ==
    [id |-> cur.id,
     title |-> IF o.title # ld.title THEN o.title ELSE cur.title,
     description |-> IF o.description # ld.description THEN o.description ELSE cur.description,
     completed |-> IF o.completed # ld.completed THEN o.completed ELSE cur.completed]

\* An update that writes the object back whether or not its row is still
\* there (an upsert).
FlushDirtyUpsert(tbl, o, ld) ==
    IF o = ld THEN [ok |-> TRUE, tbl |-> tbl, obj |-> o]
    ELSE IF ~NotNullOk(o) THEN [ok |-> FALSE, tbl |-> tbl, obj |-> o]
    ELSE [ok |-> TRUE, tbl |-> {row \in tbl : row.id # o.id} \cup {o}, obj |-> o]

\* Flush of a modified object.  No attribute changed: no statement.  A NULL
\* in a NOT NULL column: IntegrityError.  No row matched: StaleDataError.
FlushDirty(tbl, o, ld) ==
    IF o = ld THEN [ok |-> TRUE, tbl |-> tbl, obj |-> o]
    ELSE IF ~NotNullOk(o) \/ o.id \notin Ids(tbl) THEN [ok |-> FALSE, tbl |-> tbl, obj |-> o]
    ELSE LET cur == First(tbl, o.id)[1]
             new == Patched(cur, o, ld)
         IN [ok |-> TRUE, tbl |-> (tbl \ {cur}) \cup {new}, obj |-> new]

\* Flush of a pending object: INSERT, the storage assigns the id.
FlushNew(tbl, o, last, auto) ==
    IF ~NotNullOk(o) THEN [ok |-> FALSE, tbl |-> tbl, obj |-> o]
    ELSE LET new == [o EXCEPT !.id = NewId(tbl, last, auto)]
         IN [ok |-> TRUE, tbl |-> tbl \cup {new}, obj |-> new]

\* Flush of a deleted object: DELETE ... WHERE id = ?.
FlushDeleted(tbl, o) ==
    [ok |-> TRUE, tbl |-> {row \in tbl : row.id # o.id}, obj |-> o]

Flush(tbl, kind, o, ld, last, auto) ==
    CASE kind = "new" -> FlushNew(tbl, o, last, auto)
      [] kind = "dirty" -> FlushDirty(tbl, o, ld)
      [] kind = "deleted" -> FlushDeleted(tbl, o)
      [] OTHER -> [ok |-> TRUE, tbl |-> tbl, obj |-> o]

\* A catch-all that also catches the HTTPException raised for not-found.
CatchAllStatus(status) == 500

\* except HTTPException: raise -- the 404 leaves the handler as it is.
ReraiseStatus(status) == status

\* ------------------------------------------------------------------- Init
InitRequests ==
    /\ pc = [r \in Reqs |-> "idle"]
    /\ req = [r \in Reqs |-> NoReq]
    /\ sess = [r \in Reqs |-> 0]
    /\ open = {}
    /\ closes = [r \in Reqs |-> 0]
    /\ obj = [r \in Reqs |-> <<>>]
    /\ loaded = [r \in Reqs |-> <<>>]
    /\ uow = [r \in Reqs |-> "clean"]
    /\ resp = [r \in Reqs |-> NoResp]
    /\ pre = [r \in Reqs |-> {}]
    /\ preLast = [r \in Reqs |-> 0]
    /\ wrote = [r \in Reqs |-> <<>>]
    /\ faulted = [r \in Reqs |-> FALSE]
    /\ rolled = [r \in Reqs |-> FALSE]
    /\ expect = {}
    /\ issued = {}
    /\ gone = {}

\* init_db() has created the empty table; uvicorn.run starts one process.
Init ==
    /\ tasks = {}
    /\ autoincrement \in BOOLEAN
    /\ lastId = 0
    /\ workers = 1
    /\ InitRequests

\* --------------------------------------------------------------- requests
GetTasksRequests == {[op |-> "get_tasks", task_id |-> 0, body |-> NoBody]}
GetTaskRequests == {[op |-> "get_task", task_id |-> i, body |-> NoBody] : i \in TaskIds}
CreateRequests == {[op |-> "create_task", task_id |-> 0, body |-> b] : b \in Bodies}
UpdateRequests == {[op |-> "update_task", task_id |-> i, body |-> b] : i \in TaskIds, b \in Bodies}
DeleteRequests == {[op |-> "delete_task", task_id |-> i, body |-> NoBody] : i \in TaskIds}
Requests ==
    GetTasksRequests \cup GetTaskRequests \cup CreateRequests
        \cup UpdateRequests \cup DeleteRequests

\* task_data: TaskCreate, task_update: TaskUpdate -- the body is parsed into
\* the declared shape before the handler is called.
BodyValid(rq) ==
    CASE rq.op = "create_task" -> TaskCreate_valid(rq.body)
      [] rq.op = "update_task" -> TaskUpdate_valid(rq.body)
      [] OTHER -> TRUE

\* db = SessionLocal(): a new session object, distinct from every session a
\* request still refers to.
SessionLocal(held) == CHOOSE s \in SessionIds : s \notin held

\* A dependency that skips the close when the handler raised.
CloseUnlessError(opened, s, status) == IF status >= 400 THEN opened ELSE opened \ {s}

\* finally: db.close()
CloseSession(opened, s, status) == opened \ {s}

\* ---------------------------------------------------------------- actions
\* get_db up to its yield: the request gets its own session.
get_db_open(r) ==
    /\ pc[r] = "idle"
    /\ LET s == SessionLocal({sess[q] : q \in Reqs}) IN
        /\ sess' = [sess EXCEPT ![r] = s]
        /\ open' = open \cup {s}
    /\ pc' = [pc EXCEPT ![r] = "open"]
    /\ UNCHANGED <<tasks, autoincrement, lastId, preLast, workers, req, closes, obj, loaded, uow, resp, pre, wrote,
                   faulted, rolled, histVars>>

\* With one process, handlers are coroutines that never await: one runs from
\* its first statement to its return before the next one starts.
MayEnter(r) == workers > 1 \/ \A q \in Reqs \ {r} : pc[q] \notin InHandler

\* The request reaches its handler, or is rejected with 422 when its body
\* does not validate.
Dispatch(r, rq) ==
    /\ pc[r] = "open"
    /\ MayEnter(r)
    /\ (rq.op = "create_task" /\ BodyValid(rq)) => NewId(tasks, lastId, autoincrement) <= MaxId
    /\ req' = [req EXCEPT ![r] = rq]
    /\ pre' = [pre EXCEPT ![r] = tasks]
    /\ preLast' = [preLast EXCEPT ![r] = lastId]
    /\ IF BodyValid(rq)
       THEN /\ pc' = [pc EXCEPT ![r] = "try"]
            /\ resp' = resp
       ELSE /\ pc' = [pc EXCEPT ![r] = "returned"]
            /\ resp' = [resp EXCEPT ![r] = [status |-> 422, body |-> <<>>]]
    /\ UNCHANGED <<tasks, autoincrement, lastId, workers, sessVars, obj, loaded, uow, wrote, faulted,
                   rolled, histVars>>

\* get_tasks: db.query(TaskModel).all(); any exception answers 500.
get_tasks(r, fault) ==
    /\ pc[r] = "try" /\ req[r].op = "get_tasks"
    /\ resp' = [resp EXCEPT ![r] =
                  IF fault THEN [status |-> 500, body |-> <<>>]
                  ELSE [status |-> 200, body |-> <<tasks>>]]
    /\ faulted' = [faulted EXCEPT ![r] = fault]
    /\ pc' = [pc EXCEPT ![r] = "returned"]
    /\ UNCHANGED <<tasks, autoincrement, lastId, preLast, workers, req, sessVars, obj, loaded, uow, pre, wrote, rolled,
                   histVars>>

\* get_task: first() by id; 404 when there is no row, 500 on any other
\* exception (this handler does not roll back).
get_task(r, fault) ==
    /\ pc[r] = "try" /\ req[r].op = "get_task"
    /\ LET found == First(tasks, req[r].task_id) IN
        resp' = [resp EXCEPT ![r] =
                  IF fault THEN [status |-> 500, body |-> <<>>]
                  ELSE IF found = <<>> THEN [status |-> ReraiseStatus(404), body |-> <<>>]
                  ELSE [status |-> 200, body |-> found]]
    /\ faulted' = [faulted EXCEPT ![r] = fault]
    /\ pc' = [pc EXCEPT ![r] = "returned"]
    /\ UNCHANGED <<tasks, autoincrement, lastId, preLast, workers, req, sessVars, obj, loaded, uow, pre, wrote, rolled,
                   histVars>>

\* create_task: new_task = TaskModel(...); db.add(new_task)
create_add(r, fault) ==
    /\ pc[r] = "try" /\ req[r].op = "create_task"
    /\ IF fault
       THEN /\ pc' = [pc EXCEPT ![r] = "except"]
            /\ UNCHANGED <<obj, uow>>
       ELSE /\ pc' = [pc EXCEPT ![r] = "commit"]
            /\ obj' = [obj EXCEPT ![r] = <<NewTask(req[r].body)>>]
            /\ uow' = [uow EXCEPT ![r] = "new"]
    /\ faulted' = [faulted EXCEPT ![r] = fault]
    /\ UNCHANGED <<tasks, autoincrement, lastId, preLast, workers, req, sessVars, loaded, resp, pre, wrote, rolled,
                   histVars>>

\* update_task and delete_task: the lookup, and the 404 when it finds no row.
query_first(r, fault) ==
    /\ pc[r] = "try" /\ req[r].op \in {"update_task", "delete_task"}
    /\ LET found == First(tasks, req[r].task_id) IN
        IF fault
        THEN /\ pc' = [pc EXCEPT ![r] = "except"]
             /\ UNCHANGED <<obj, loaded, resp>>
        ELSE IF found = <<>>
        THEN /\ pc' = [pc EXCEPT ![r] =
                         IF ReraiseStatus(404) = 404 THEN "returned" ELSE "except"]
             /\ resp' = [resp EXCEPT ![r] = [status |-> 404, body |-> <<>>]]
             /\ UNCHANGED <<obj, loaded>>
        ELSE /\ pc' = [pc EXCEPT ![r] = "stage"]
             /\ obj' = [obj EXCEPT ![r] = found]
             /\ loaded' = [loaded EXCEPT ![r] = found]
             /\ resp' = resp
    /\ faulted' = [faulted EXCEPT ![r] = fault]
    /\ UNCHANGED <<tasks, autoincrement, lastId, preLast, workers, req, sessVars, uow, pre, wrote, rolled, histVars>>

\* update_task: the setattr loop over the fields that were sent, db.add.
update_setattr(r, fault) ==
    /\ pc[r] = "stage" /\ req[r].op = "update_task"
    /\ IF fault
       THEN /\ pc' = [pc EXCEPT ![r] = "except"]
            /\ UNCHANGED <<obj, uow>>
       ELSE /\ pc' = [pc EXCEPT ![r] = "commit"]
            /\ obj' = [obj EXCEPT ![r] = <<SetAttrs(obj[r][1], req[r].body)>>]
            /\ uow' = [uow EXCEPT ![r] = "dirty"]
    /\ faulted' = [faulted EXCEPT ![r] = faulted[r] \/ fault]
    /\ UNCHANGED <<tasks, autoincrement, lastId, preLast, workers, req, sessVars, loaded, resp, pre, wrote, rolled,
                   histVars>>

\* delete_task: db.delete(db_task)
delete_delete(r, fault) ==
    /\ pc[r] = "stage" /\ req[r].op = "delete_task"
    /\ IF fault
       THEN /\ pc' = [pc EXCEPT ![r] = "except"]
            /\ uow' = uow
       ELSE /\ pc' = [pc EXCEPT ![r] = "commit"]
            /\ uow' = [uow EXCEPT ![r] = "deleted"]
    /\ faulted' = [faulted EXCEPT ![r] = faulted[r] \/ fault]
    /\ UNCHANGED <<tasks, autoincrement, lastId, preLast, workers, req, sessVars, obj, loaded, resp, pre, wrote, rolled,
                   histVars>>

\* db.commit(): the pending work is flushed and committed as one
\* transaction, or nothing of it is.  delete_task returns right after it.
commit(r, fault) ==
    /\ pc[r] = "commit"
    /\ LET f == Flush(tasks, uow[r], obj[r][1],
                      IF loaded[r] = <<>> THEN obj[r][1] ELSE loaded[r][1],
                      lastId, autoincrement) IN
        IF fault \/ ~f.ok
        THEN /\ pc' = [pc EXCEPT ![r] = "except"]
             /\ UNCHANGED <<tasks, autoincrement, lastId, obj, uow, resp, wrote>>
        ELSE /\ tasks' = f.tbl
             /\ lastId' = IF uow[r] = "new" /\ autoincrement THEN f.obj.id ELSE lastId
             /\ obj' = [obj EXCEPT ![r] = <<f.obj>>]
             /\ uow' = [uow EXCEPT ![r] = "clean"]
             /\ wrote' = [wrote EXCEPT ![r] = First(f.tbl, f.obj.id)]
             /\ IF req[r].op = "delete_task"
                THEN /\ pc' = [pc EXCEPT ![r] = "returned"]
                     /\ resp' = [resp EXCEPT ![r] = [status |-> 204, body |-> <<>>]]
                ELSE /\ pc' = [pc EXCEPT ![r] = "refresh"]
                     /\ resp' = resp
    /\ faulted' = [faulted EXCEPT ![r] = faulted[r] \/ fault]
    /\ UNCHANGED <<autoincrement, preLast, workers, req, sessVars, loaded, pre, rolled,
                   histVars>>

\* db.refresh(obj); return obj: the row is read back by its id; it raises
\* when the row is gone.
refresh(r, fault) ==
    /\ pc[r] = "refresh"
    /\ LET found == First(tasks, obj[r][1].id) IN
        IF fault \/ found = <<>>
        THEN /\ pc' = [pc EXCEPT ![r] = "except"]
             /\ UNCHANGED <<obj, loaded, resp>>
        ELSE /\ pc' = [pc EXCEPT ![r] = "returned"]
             /\ obj' = [obj EXCEPT ![r] = found]
             /\ loaded' = [loaded EXCEPT ![r] = found]
             /\ resp' = [resp EXCEPT ![r] =
                           [status |-> IF req[r].op = "create_task" THEN 201 ELSE 200,
                            body |-> found]]
    /\ faulted' = [faulted EXCEPT ![r] = faulted[r] \/ fault]
    /\ UNCHANGED <<tasks, autoincrement, lastId, preLast, workers, req, sessVars, uow, pre, wrote, rolled, histVars>>

\* except Exception: db.rollback(); raise HTTPException(500)
except_rollback(r) ==
    /\ pc[r] = "except"
    /\ uow' = [uow EXCEPT ![r] = "clean"]
    /\ rolled' = [rolled EXCEPT ![r] = TRUE]
    /\ resp' = [resp EXCEPT ![r] = [status |-> 500, body |-> <<>>]]
    /\ pc' = [pc EXCEPT ![r] = "returned"]
    /\ UNCHANGED <<tasks, autoincrement, lastId, preLast, workers, req, sessVars, obj, loaded, pre, wrote, faulted,
                   histVars>>

\* What the answered responses account for: a 201 adds the returned task, a
\* 200 of update_task replaces it, a 204 removes it.
Acknowledged(rows, rq, rs) ==
    CASE rs.status = 201 -> rows \cup {rs.body[1]}
      [] rs.status = 200 /\ rq.op = "update_task" /\ rq.task_id \in Ids(rows) ->
            {row \in rows : row.id # rq.task_id} \cup {rs.body[1]}
      [] rs.status = 204 -> {row \in rows : row.id # rq.task_id}
      [] OTHER -> rows

\* The response leaves the handler and is sent to the client.  `record`
\* says whether the history of answered responses is kept.
Respond(r, record) ==
    /\ pc[r] = "returned"
    /\ pc' = [pc EXCEPT ![r] = "responded"]
    /\ IF record
       THEN /\ expect' = Acknowledged(expect, req[r], resp[r])
            /\ issued' = IF resp[r].status = 201
                         THEN issued \cup {resp[r].body[1].id} ELSE issued
            /\ gone' = CASE resp[r].status = 201 -> gone \ {resp[r].body[1].id}
                         [] resp[r].status = 204 -> gone \cup {req[r].task_id}
                         [] OTHER -> gone
       ELSE UNCHANGED histVars
    /\ req' = [req EXCEPT ![r] = NoReq]
    /\ resp' = [resp EXCEPT ![r] = [status |-> resp[r].status, body |-> <<>>]]
    /\ obj' = [obj EXCEPT ![r] = <<>>]
    /\ loaded' = [loaded EXCEPT ![r] = <<>>]
    /\ uow' = [uow EXCEPT ![r] = "clean"]
    /\ pre' = [pre EXCEPT ![r] = {}]
    /\ preLast' = [preLast EXCEPT ![r] = 0]
    /\ wrote' = [wrote EXCEPT ![r] = <<>>]
    /\ faulted' = [faulted EXCEPT ![r] = FALSE]
    /\ rolled' = [rolled EXCEPT ![r] = FALSE]
    /\ UNCHANGED <<tasks, autoincrement, lastId, workers, sessVars>>

\* get_db after its yield: finally: db.close(), whatever the handler did.
get_db_close(r) ==
    /\ pc[r] = "responded"
    /\ open' = CloseSession(open, sess[r], resp[r].status)
    /\ closes' = [closes EXCEPT ![r] = IF sess[r] \in open' THEN @ ELSE @ + 1]
    /\ pc' = [pc EXCEPT ![r] = "finished"]
    /\ UNCHANGED <<tasks, autoincrement, lastId, preLast, workers, req, sess, obj, loaded, uow, resp, pre, wrote,
                   faulted, rolled, histVars>>

\* The request is over; its slot serves the next one.
Complete(r) ==
    /\ pc[r] = "finished"
    /\ pc' = [pc EXCEPT ![r] = "idle"]
    /\ sess' = [sess EXCEPT ![r] = 0]
    /\ closes' = [closes EXCEPT ![r] = 0]
    /\ resp' = [resp EXCEPT ![r] = NoResp]
    /\ UNCHANGED <<tasks, autoincrement, lastId, preLast, workers, req, open, obj, loaded, uow, pre, wrote, faulted,
                   rolled, histVars>>

\* ---------------------------------------------------------- specifications
\* Every step request r can take, its request drawn from rqs.
Step(r, rqs, record) ==
    \/ get_db_open(r)
    \/ \E rq \in rqs : Dispatch(r, rq)
    \/ \E fault \in BOOLEAN : get_tasks(r, fault)
    \/ \E fault \in BOOLEAN : get_task(r, fault)
    \/ \E fault \in BOOLEAN : create_add(r, fault)
    \/ \E fault \in BOOLEAN : query_first(r, fault)
    \/ \E fault \in BOOLEAN : update_setattr(r, fault)
    \/ \E fault \in BOOLEAN : delete_delete(r, fault)
    \/ \E fault \in BOOLEAN : commit(r, fault)
    \/ \E fault \in BOOLEAN : refresh(r, fault)
    \/ except_rollback(r)
    \/ Respond(r, record)
    \/ get_db_close(r)
    \/ Complete(r)

\* Requests served one after the other, with every body a client can send.
Next == Step(1, Requests, FALSE)

Spec == Init /\ [][Next]_vars

\* The same, with the history of answered responses kept, over the bodies
\* that set a title and the completed flag.
HistBodies ==
    {b \in Bodies : /\ b.title \in {Unset, Sent(Some("a"))}
                    /\ b.description = Unset
                    /\ b.completed \in {Unset, Sent(Some(TRUE))}}

HistRequests == {rq \in Requests : rq.body \in HistBodies}

NextHist == Step(1, HistRequests, TRUE)

SpecHist == Init /\ [][NextHist]_vars

\* Several requests in flight in the one process: their sessions are opened
\* and closed around handlers that run one at a time.  The bodies set a
\* title or nothing, and the requests by id name the first task.
SessBodies ==
    {b \in Bodies : /\ b.title \in {Unset, Sent(Some("a"))}
                    /\ b.description = Unset
                    /\ b.completed = Unset}

SessRequests == {rq \in Requests : rq.body \in SessBodies /\ rq.task_id \in {0, 1}}

NextSess == \E r \in Reqs : Step(r, SessRequests, FALSE)

SpecSess == Init /\ [][NextSess]_vars

\* Two server processes on the same table: an update_task and a delete_task
\* whose statements interleave freely.
InitConc ==
    /\ tasks \in {{t} : t \in {x \in Task : x.id = 1}}
    /\ autoincrement \in BOOLEAN
    /\ lastId = IF autoincrement THEN 1 ELSE 0
    /\ workers = 2
    /\ InitRequests

NextConc ==
    \/ \E r \in Reqs : get_db_open(r)
    \/ \E rq \in UpdateRequests : Dispatch(1, rq)
    \/ \E rq \in DeleteRequests : Dispatch(2, rq)
    \/ \E r \in Reqs, fault \in BOOLEAN : query_first(r, fault)
    \/ \E r \in Reqs, fault \in BOOLEAN : update_setattr(r, fault)
    \/ \E r \in Reqs, fault \in BOOLEAN : delete_delete(r, fault)
    \/ \E r \in Reqs, fault \in BOOLEAN : commit(r, fault)
    \/ \E r \in Reqs, fault \in BOOLEAN : refresh(r, fault)
    \/ \E r \in Reqs : except_rollback(r)

SpecConc == InitConc /\ [][NextConc]_vars

\* ------------------------------------------------------------------ claims
Returned(r, op) == pc[r] = "returned" /\ req[r].op = op

\* C1: a successful update_task sets every field that was sent to the value
\* sent, keeps the id and every field that was not sent as they were before
\* the update, stores exactly that row and touches no other row.
C1_MergePatch ==
    \A r \in Reqs :
        (Returned(r, "update_task") /\ resp[r].status = 200) =>
            LET b == req[r].body
                old == First(pre[r], req[r].task_id)
                new == resp[r].body[1]
            IN /\ old # <<>>
               /\ new.id = req[r].task_id
               /\ new.title = IF b.title # Unset THEN b.title[1] ELSE old[1].title
               /\ new.description =
                    IF b.description # Unset THEN b.description[1] ELSE old[1].description
               /\ new.completed =
                    IF b.completed # Unset THEN b.completed[1] ELSE old[1].completed
               /\ tasks = (pre[r] \ {old[1]}) \cup {new}

\* An update that sent only completed, and changed it, on a task that has a
\* description, has answered 200.
C1_Witness ==
    \E r \in Reqs :
        /\ Returned(r, "update_task") /\ resp[r].status = 200
        /\ req[r].body.title = Unset /\ req[r].body.description = Unset
        /\ req[r].body.completed # Unset
        /\ First(pre[r], req[r].task_id)[1].description # None
        /\ First(pre[r], req[r].task_id)[1].completed # resp[r].body[1].completed

NoTitle(body) == body.title \in {Unset, Sent(None), Sent(Some(""))}

\* C5: a create whose title is absent, null or empty never reaches the
\* handler: it is answered 422 with the table as it was, nothing staged in
\* the session and the next id to assign unchanged.
C5_CreateRejected ==
    \A r \in Reqs :
        (req[r].op = "create_task" /\ NoTitle(req[r].body)) =>
            /\ pc[r] = "returned"
            /\ resp[r].status = 422
            /\ tasks = pre[r]
            /\ lastId = preLast[r]
            /\ NewId(tasks, lastId, autoincrement) = NewId(pre[r], preLast[r], autoincrement)
            /\ obj[r] = <<>> /\ uow[r] = "clean"

\* A create with an empty title has been answered while the table holds a task.
C5_Witness ==
    \E r \in Reqs :
        /\ Returned(r, "create_task")
        /\ req[r].body.title = Sent(Some(""))
        /\ tasks # {}

\* C6: in every state no two rows of the table share an id and every row has
\* a title that is neither null nor empty.
C6_UniqueIdNonEmptyTitle ==
    /\ \A x \in tasks : \A y \in tasks : x.id = y.id => x = y
    /\ \A x \in tasks : x.title # None /\ x.title # Some("")
    /\ tasks \subseteq Task

\* An update that sent title as null on an existing task has been answered,
\* with two tasks in the table.
C6_Witness ==
    \E r \in Reqs :
        /\ Returned(r, "update_task")
        /\ req[r].body.title = Sent(None)
        /\ req[r].task_id \in Ids(pre[r])
        /\ Cardinality(tasks) = 2

Mutating == {"create_task", "update_task", "delete_task"}

\* C7: when create_task, update_task or delete_task answers 500, it has
\* rolled back and the table is what it was when the handler started.
C7_NoWriteOn500 ==
    \A r \in Reqs :
        (pc[r] = "returned" /\ req[r].op \in Mutating /\ resp[r].status = 500) =>
            rolled[r] /\ tasks = pre[r]

\* C9: update_task and delete_task called (the body, if any, validated) on
\* an id that has no row, whose lookup did not raise, answer 404 without
\* rolling back, without staging or committing anything, and leave the table
\* as it was.
C9_NotFoundBeforeMutation ==
    \A r \in Reqs :
        (/\ req[r].op \in {"update_task", "delete_task"}
         /\ BodyValid(req[r])
         /\ req[r].task_id \notin Ids(pre[r])
         /\ ~faulted[r]) =>
            /\ pc[r] \in {"try", "returned"}
            /\ pc[r] = "returned" =>
                /\ resp[r].status = 404
                /\ ~rolled[r]
                /\ tasks = pre[r]
                /\ obj[r] = <<>> /\ uow[r] = "clean" /\ wrote[r] = <<>>

\* An update of a missing id, sending a title, has been answered while the
\* table holds another task.
C9_Witness ==
    \E r \in Reqs :
        /\ Returned(r, "update_task")
        /\ req[r].task_id \notin Ids(pre[r])
        /\ req[r].body.title \in {Sent(Some(t)) : t \in Titles}
        /\ ~faulted[r]
        /\ tasks # {}

\* C2: the list get_tasks returns is exactly the tasks whose create was
\* answered 201 and whose delete was not answered 204 since, each with the
\* fields of its create or of its latest update answered 200.
C2_ListIsAcknowledged ==
    \A r \in Reqs :
        (Returned(r, "get_tasks") /\ resp[r].status = 200) =>
            resp[r].body[1] = expect

InFlight == {"open", "responded"} \cup InHandler

\* C8: a request holds an open session of its own, not closed yet, from
\* get_db's yield until its response is out; once it has finished, its
\* session was closed exactly once; no session is open that no request in
\* flight holds, and no two requests hold the same session.
C8_SessionScoped ==
    /\ \A r \in Reqs :
        /\ pc[r] = "idle" => sess[r] = 0 /\ closes[r] = 0
        /\ pc[r] \in InFlight => sess[r] \in open /\ closes[r] = 0
        /\ pc[r] = "finished" => sess[r] # 0 /\ sess[r] \notin open /\ closes[r] = 1
    /\ open = {sess[r] : r \in {q \in Reqs : pc[q] \in InFlight}}
    /\ \A r \in Reqs : \A q \in Reqs \ {r} : sess[r] # 0 => sess[r] # sess[q]

\* One request has finished with 500 and another with 404.
C8_Witness ==
    \E r \in Reqs : \E q \in Reqs :
        /\ pc[r] = "finished" /\ resp[r].status = 500
        /\ pc[q] = "finished" /\ resp[q].status = 404

\* C10: an update_task and a delete_task on the same id, each with its own
\* session: once both have returned and the delete answered 204, the table
\* has no row of that id; and an update that answers 200 returns the row as
\* its commit left it in the table.
C10_DeleteWins ==
    \A u \in Reqs : \A d \in Reqs :
        /\ (/\ Returned(u, "update_task") /\ Returned(d, "delete_task")
            /\ req[u].task_id = req[d].task_id
            /\ resp[d].status = 204) =>
                req[d].task_id \notin Ids(tasks)
        /\ (Returned(u, "update_task") /\ resp[u].status = 200) =>
                /\ wrote[u] # <<>>
                /\ resp[u].body = wrote[u]
                /\ sess[u] # sess[d] \/ u = d

\* The delete committed between the update's lookup and the update's
\* commit: the update changed a field of the row it had loaded, found no row
\* to write it to, and both requests have returned.
C10_Witness ==
    \E u \in Reqs : \E d \in Reqs :
        /\ Returned(u, "update_task") /\ Returned(d, "delete_task")
        /\ req[u].task_id = req[d].task_id
        /\ resp[d].status = 204
        /\ resp[u].status = 500 /\ ~faulted[u]
        /\ loaded[u] # <<>> /\ obj[u] # loaded[u] /\ NotNullOk(obj[u][1])

====
